---- MODULE Spec2Model ----
(***************************************************************************)
(* Model of bfg.py, the orchestration front-end of bl-bfg: loading a YAML  *)
(* document, translating it to argparse tokens, dispatching database       *)
(* management commands, assembling and validating the engine               *)
(* configuration, launching the attack and handling keyboard interrupts.   *)
(*                                                                         *)
(* Strings are sequences of one-character strings, so that str(),          *)
(* str.lower(), str.replace() and str.format() are computed character by   *)
(* character as the Python code computes them.                             *)
(***************************************************************************)
EXTENDS Integers, Sequences, FiniteSets, TLC

(***************************************************************************)
(* Bounds of the model.                                                    *)
(***************************************************************************)
\* largest number of management operations in a document
MaxOps == 2
\* largest number of keyboard interrupts delivered during one campaign
MaxInterrupts == 2

(***************************************************************************)
(* String literals.                                                        *)
(***************************************************************************)
s_database == <<"d","a","t","a","b","a","s","e">>
s_manage_db == <<"m","a","n","a","g","e","-","d","b">>
s_brute_force == <<"b","r","u","t","e","-","f","o","r","c","e">>
s_module == <<"m","o","d","u","l","e">>
s_name == <<"n","a","m","e">>
s_args == <<"a","r","g","s">>
s_a_db == <<"a",".","d","b">>
s_add_creds == <<"a","d","d","-","c","r","e","d","s">>
s_dump == <<"d","u","m","p">>
s_prune == <<"p","r","u","n","e">>
s_file == <<"f","i","l","e">>
s_c_txt == <<"c",".","t","x","t">>
s_as_creds == <<"a","s","_","c","r","e","d","s">>
s_users == <<"u","s","e","r","s">>
s_process_count == <<"p","r","o","c","e","s","s","_","c","o","u","n","t">>
s_stop_on_valid == <<"s","t","o","p","_","o","n","_","v","a","l","i","d">>
s_ssh == <<"s","s","h">>
s_port == <<"p","o","r","t">>
s_verify_ssl == <<"v","e","r","i","f","y","_","s","s","l">>
s_a == <<"a">>
s_b == <<"b">>
s_True == <<"T","r","u","e">>
s_False == <<"F","a","l","s","e">>

\* the two tokens of the spec's attack scenario, as the grammar expects them
t_process_count_4 == <<"-","-","p","r","o","c","e","s","s","-","c","o","u","n","t","=","4">>
t_port_22 == <<"-","-","p","o","r","t","=","2","2">>

\* the tokens of the spec's management scenario
t_database_a_db == <<"-","-","d","a","t","a","b","a","s","e","=","a",".","d","b">>
t_file == <<"-","-","f","i","l","e">>
s_true == <<"t","r","u","e">>
s_false == <<"f","a","l","s","e">>

(***************************************************************************)
(* Document values: the native types yaml.load produces.                   *)
(* One record shape for every type, so that any two values compare.        *)
(***************************************************************************)
StrV(s) == [t |-> "str", s |-> s, n |-> 0, b |-> FALSE, l |-> <<>>, m |-> <<>>]
IntV(n) == [t |-> "int", s |-> <<>>, n |-> n, b |-> FALSE, l |-> <<>>, m |-> <<>>]
BoolV(b) == [t |-> "bool", s |-> <<>>, n |-> 0, b |-> b, l |-> <<>>, m |-> <<>>]
\* l: sequence of scalar values
ListV(l) == [t |-> "list", s |-> <<>>, n |-> 0, b |-> FALSE, l |-> l, m |-> <<>>]
\* m: sequence of <<key, value>> pairs in declaration order (dict order)
MapV(m) == [t |-> "map", s |-> <<>>, n |-> 0, b |-> FALSE, l |-> <<>>, m |-> m]

\* k in d.keys()
HasKey(m, k) == \E i \in 1..Len(m) : m[i][1] = k
\* d[k]
Get(m, k) == m[CHOOSE i \in 1..Len(m) : m[i][1] = k][2]

(***************************************************************************)
(* Python string functions.                                                *)
(***************************************************************************)
Digits == <<"0","1","2","3","4","5","6","7","8","9">>

RECURSIVE IntStr(_)
\* str(n) for a non-negative int
IntStr(n) == IF n < 10 THEN <<Digits[n + 1]>>
             ELSE IntStr(n \div 10) \o <<Digits[(n % 10) + 1]>>

UpperAlpha == <<"A","B","C","D","E","F","G","H","I","J","K","L","M",
                "N","O","P","Q","R","S","T","U","V","W","X","Y","Z">>
LowerAlpha == <<"a","b","c","d","e","f","g","h","i","j","k","l","m",
                "n","o","p","q","r","s","t","u","v","w","x","y","z">>

\* str.lower()
Lower(s) == [i \in 1..Len(s) |->
               IF \E j \in 1..26 : UpperAlpha[j] = s[i]
               THEN LowerAlpha[CHOOSE j \in 1..26 : UpperAlpha[j] = s[i]]
               ELSE s[i]]

\* str.replace("_", "-")
ReplaceUnderscore(s) == [i \in 1..Len(s) |-> IF s[i] = "_" THEN "-" ELSE s[i]]

\* repr() of a scalar, as str(list) shows its elements
Repr(v) == CASE v.t = "str" -> <<"'">> \o v.s \o <<"'">>
             [] v.t = "int" -> IntStr(v.n)
             [] v.t = "bool" -> IF v.b THEN s_True ELSE s_False
             [] OTHER -> <<"?">>

RECURSIVE ReprJoin(_)
\* ", ".join(repr(e) for e in l)
ReprJoin(l) == IF l = <<>> THEN <<>>
               ELSE IF Len(l) = 1 THEN Repr(l[1])
               ELSE Repr(l[1]) \o <<",", " ">> \o ReprJoin(Tail(l))

\* str(v), which is also what '{value}'.format(value=v) inserts
Str(v) == CASE v.t = "str" -> v.s
            [] v.t = "int" -> IntStr(v.n)
            [] v.t = "bool" -> IF v.b THEN s_True ELSE s_False
            [] v.t = "list" -> <<"[">> \o ReprJoin(v.l) \o <<"]">>
            [] OTHER -> <<"?">>

\* FLAG_TEMPLATE.format(flag=flag, value=value), value already a string
FT(flag, value) == <<"-", "-">> \o flag \o <<"=">> \o value

(***************************************************************************)
(* Argument Normalizer: management operations (bfg.py 264-275).            *)
(***************************************************************************)
\* the coercion of one flag's value to its list of value tokens
MgmtValues(values) ==
    IF values.t = "list" THEN [i \in 1..Len(values.l) |-> Str(values.l[i])]
    ELSE IF values.t = "bool" THEN <<Lower(Str(values))>>
    ELSE <<Str(values)>>

\* f'--{flag}'
MgmtFlag(flag) == <<"-", "-">> \o flag

RECURSIVE MgmtFlags(_)
\* the tokens the loop over argset.items() adds to _args
MgmtFlags(m) == IF m = <<>> THEN <<>>
                ELSE <<MgmtFlag(m[1][1])>> \o MgmtValues(m[1][2]) \o MgmtFlags(Tail(m))

\* _args with the store path appended after the flags
MgmtArgs_DatabaseLast(cmd, db_arg, argset) == <<cmd>> \o MgmtFlags(argset.m) \o <<db_arg>>

\* _args as handed to run_db_command
MgmtArgs(cmd, db_arg, argset) == <<cmd, db_arg>> \o MgmtFlags(argset.m)

(***************************************************************************)
(* Argument Normalizer: the attack section (bfg.py 283-332).               *)
(***************************************************************************)
\* the value of a non-module argument as inserted in the flag template
AttackValue(v) == IF v.t = "bool" THEN Lower(Str(v)) ELSE Str(v)

\* the token of a non-module argument
AttackFlag(k, v) == FT(ReplaceUnderscore(k), AttackValue(v))

RECURSIVE ModuleArgTokens(_)
\* the tokens of the module's argument mapping
ModuleArgTokens(m) == IF m = <<>> THEN <<>>
                      ELSE <<FT(ReplaceUnderscore(m[1][1]), Str(m[1][2]))>>
                           \o ModuleArgTokens(Tail(m))

\* the tokens of the module entry: its name, then its argument flags
ModuleTokens(v) == <<Get(v.m, s_name).s>> \o ModuleArgTokens(Get(v.m, s_args).m)

RECURSIVE AttackTokens_Reversed(_)
\* the loop appending each entry's tokens in front of the earlier ones
AttackTokens_Reversed(bf) ==
    IF bf = <<>> THEN <<>>
    ELSE AttackTokens_Reversed(Tail(bf))
         \o (IF bf[1][1] /= s_module
             THEN <<AttackFlag(bf[1][1], bf[1][2])>>
             ELSE ModuleTokens(bf[1][2]))

RECURSIVE AttackTokens(_)
\* the tokens the loop over bf_args.items() appends to brute_cli_args
AttackTokens(bf) == IF bf = <<>> THEN <<>>
                    ELSE (IF bf[1][1] /= s_module
                          THEN <<AttackFlag(bf[1][1], bf[1][2])>>
                          ELSE ModuleTokens(bf[1][2]))
                         \o AttackTokens(Tail(bf))

\* the ValueError the attack translation raises, "" when it raises none
AttackError(bf) ==
    IF ~HasKey(bf, s_module) THEN "ValueError:module"
    ELSE IF ~HasKey(Get(bf, s_module).m, s_name) THEN "ValueError:name"
    ELSE IF ~HasKey(Get(bf, s_module).m, s_args) THEN "ValueError:args"
    ELSE ""

(***************************************************************************)
(* The inputs: documents, command lines, operator answers.                 *)
(***************************************************************************)
\* the management operations a document may declare: <<command, value>>
ManageOps ==
    { <<s_add_creds, MapV(<< <<s_file, StrV(s_c_txt)>> >>)>>,
      <<s_dump, StrV(s_a)>>,
      <<s_prune, MapV(<< <<s_as_creds, BoolV(TRUE)>>,
                         <<s_users, ListV(<<StrV(s_a), StrV(s_b)>>)>> >>)>> }

\* the manage-db sections: up to MaxOps operations under distinct keys
ManageSections ==
    UNION { { q \in [1..n -> ManageOps] :
                \A i, j \in 1..n : i /= j => q[i][1] /= q[j][1] } : n \in 0..MaxOps }

\* module: {name: ssh, args: {port: 22}}
SshModule == MapV(<< <<s_name, StrV(s_ssh)>>,
                     <<s_args, MapV(<< <<s_port, IntV(22)>> >>)>> >>)

\* the brute-force sections
BruteSections ==
    { <<>>,
      << <<s_process_count, IntV(4)>> >>,
      << <<s_module, SshModule>>, <<s_process_count, IntV(4)>> >>,
      << <<s_process_count, IntV(4)>>, <<s_module, SshModule>> >>,
      << <<s_module, MapV(<< <<s_args, MapV(<<>>)>> >>)>> >>,
      << <<s_module, MapV(<< <<s_name, StrV(s_ssh)>> >>)>> >>,
      << <<s_stop_on_valid, BoolV(TRUE)>>,
         <<s_module, MapV(<< <<s_name, StrV(s_ssh)>>,
                            <<s_args, MapV(<< <<s_verify_ssl, BoolV(FALSE)>> >>)>> >>)>> >>,
      << <<s_users, ListV(<<StrV(s_a), StrV(s_b)>>)>>, <<s_module, SshModule>> >> }

\* the documents: the top-level mapping in declaration order
Documents ==
    { d \o << <<s_manage_db, MapV(mg)>>, <<s_brute_force, MapV(bf)>> >> :
        d \in { <<>>, << <<s_database, StrV(s_a_db)>> >> },
        mg \in ManageSections, bf \in BruteSections }

\* what the path given with --yaml-file resolves to
FileStatuses == {"file", "dir", "missing"}

\* the command lines of "cli manage-db": with a subcommand, and without one
CliDbArgvs == { <<>>, <<s_add_creds, FT(s_database, s_a_db), MgmtFlag(s_file), s_c_txt>> }

\* what the operator may type at a prompt
Answers == {"y", "n", "x"}

\* yargs.get(key, {})
GetOrEmpty(m, k) == IF HasKey(m, k) THEN Get(m, k) ELSE MapV(<<>>)

\* db_args and bf_args of the document (bfg.py 244-245)
DbArgs(d) == GetOrEmpty(d, s_manage_db).m
BfArgs(d) == GetOrEmpty(d, s_brute_force).m

\* db_arg (bfg.py 242)
DbArg(d) == <<"-","-","d","a","t","a","b","a","s","e","=">> \o Get(d, s_database).s

(***************************************************************************)
(* The state.                                                              *)
(***************************************************************************)
VARIABLES
    mode,             \* args.mode: "yaml", "db" or "brute"
    doc,              \* the document the YAML file holds
    fileStatus,       \* what the YAML path resolves to
    argv,             \* the command line of "cli manage-db"
    pc,               \* the position of the main program
    exitStatus,       \* the exit status of the process, -1 while it runs
    error,            \* the exception that ended the process, "" if none
    reported,         \* what the except block of the launch has printed
    storeExists,      \* Path(args.database).exists()
    opIdx,            \* the position of the management loop in db_args
    dispatched,       \* the token lists run_db_command was called with
    executed,         \* the commands executed: tokens and store handle
    handles,          \* the number of Manager objects constructed
    cont,             \* the last answer to the creation prompt
    brute_cli_args,   \* the attack tokens
    parsed,           \* whether brute_sp.parse_args was given the tokens
    hasModule,        \* hasattr(args, 'module')
    validation,       \* config.validate(): "pending", "ok" or "failed"
    engine,           \* the BruteForcer: "none", "running", "draining",
                      \*   "stopped" or "failed"
    shutdownRequests, \* the number of calls of bf.shutdown()
    uinput,           \* the last answer to the kill prompt
    resume,           \* the interrupted positions, innermost last
    interrupts        \* the number of interrupts delivered so far

vars == <<mode, doc, fileStatus, argv, pc, exitStatus, error, reported,
          storeExists, opIdx, dispatched, executed, handles, cont,
          brute_cli_args, parsed, hasModule, validation, engine,
          shutdownRequests, uinput, resume, interrupts>>

mgmtVars == <<storeExists, opIdx, dispatched, executed, handles, cont>>
attackVars == <<brute_cli_args, parsed, hasModule>>
engineVars == <<validation, engine, shutdownRequests, uinput, resume, interrupts>>
inputVars == <<doc, fileStatus, argv>>

EmptyDoc == << <<s_database, StrV(s_a_db)>> >>

Init ==
    /\ mode \in {"yaml", "db", "brute"}
    /\ IF mode = "yaml"
       THEN doc \in Documents /\ fileStatus \in FileStatuses
       ELSE doc = EmptyDoc /\ fileStatus = "file"
    /\ IF mode = "db" THEN argv \in CliDbArgvs ELSE argv = <<>>
    /\ hasModule \in (IF mode = "brute" THEN BOOLEAN ELSE {FALSE})
    /\ storeExists \in BOOLEAN
    /\ pc = "start"
    /\ exitStatus = -1
    /\ error = ""
    /\ reported = {}
    /\ opIdx = 1
    /\ dispatched = <<>>
    /\ executed = <<>>
    /\ handles = 0
    /\ cont = ""
    /\ brute_cli_args = <<>>
    /\ parsed = FALSE
    /\ validation = "pending"
    /\ engine = "none"
    /\ shutdownRequests = 0
    /\ uinput = ""
    /\ resume = <<>>
    /\ interrupts = 0

(***************************************************************************)
(* Ways the process ends.                                                  *)
(***************************************************************************)
\* an exception nothing catches: traceback, exit status 1
Raise(exc) == pc' = "exited" /\ exitStatus' = 1 /\ error' = exc

\* sys.exit() without argument, or the end of the script: exit status 0
ExitClean == pc' = "exited" /\ exitStatus' = 0 /\ error' = error

(***************************************************************************)
(* Declarative Config Loader (bfg.py 34-80, 237-247).                      *)
(***************************************************************************)
\* findFile raises FileNotFoundError: not path.exists() and path.is_file()
findFile(st) == ~(st \in {"file", "dir"}) /\ st = "file"

\* parseYml without its loop over key_checks: it never raises
parseYml_NoKeyChecks(d, key_checks) == FALSE

\* parseYml raises ValueError: some key of key_checks is not in the document
parseYml(d, key_checks) == \E v \in key_checks : ~HasKey(d, v)

\* yaml mode up to the management loop
LoadDocument ==
    /\ pc = "start" /\ mode = "yaml"
    /\ IF findFile(fileStatus) THEN Raise("findFile:FileNotFoundError")
       ELSE IF fileStatus = "missing" THEN Raise("open:FileNotFoundError")
       ELSE IF fileStatus = "dir" THEN Raise("open:IsADirectoryError")
       ELSE IF parseYml(doc, {s_database}) THEN Raise("ValueError:database")
       ELSE IF ~HasKey(doc, s_database) THEN Raise("KeyError:database")
       ELSE pc' = "manage" /\ UNCHANGED <<exitStatus, error>>
    /\ brute_cli_args' = IF pc' = "manage" THEN <<DbArg(doc)>> ELSE brute_cli_args
    /\ UNCHANGED <<mode, inputVars, reported, mgmtVars, parsed, hasModule, engineVars>>

(***************************************************************************)
(* Database Command Dispatcher (bfg.py 99-166).                            *)
(***************************************************************************)
\* where run_db_command returns to: the next iteration of the management
\* loop in yaml mode, the end of the script in cli mode
ReturnFromDbCommand ==
    IF mode = "yaml"
    THEN pc' = "manage" /\ opIdx' = opIdx + 1 /\ UNCHANGED <<exitStatus, error>>
    ELSE ExitClean /\ opIdx' = opIdx

\* Manager(args.database), then args.cmd(args, logger, manager)
InitializeAndExecute(tokens) ==
    \E ok \in BOOLEAN :
        IF ok
        THEN /\ handles' = handles + 1
             /\ storeExists' = TRUE
             /\ executed' = Append(executed, [args |-> tokens, manager |-> handles + 1])
             /\ ReturnFromDbCommand
        ELSE /\ Raise("Manager:Exception")
             /\ UNCHANGED <<handles, storeExists, executed, opIdx>>

\* run_db_command up to the creation prompt, or to its return
run_db_command(tokens) ==
    /\ dispatched' = Append(dispatched, tokens)
    /\ IF tokens = <<>>
       THEN ExitClean /\ UNCHANGED <<handles, storeExists, executed, opIdx>>
       ELSE IF ~storeExists
       THEN /\ pc' = "db_prompt"
            /\ UNCHANGED <<exitStatus, error, handles, storeExists, executed, opIdx>>
       ELSE InitializeAndExecute(tokens)
    /\ cont' = ""

\* the creation prompt with a return in place of the exit on 'n': the
\* command is skipped and the caller goes on
CreationPrompt_ReturnsOnDecline(a) ==
    /\ pc = "db_prompt"
    /\ cont' = a
    /\ IF a = "n"
       THEN ReturnFromDbCommand /\ UNCHANGED <<handles, storeExists, executed>>
       ELSE IF a = "y"
       THEN InitializeAndExecute(dispatched[Len(dispatched)])
       ELSE UNCHANGED <<pc, exitStatus, error, handles, storeExists, executed, opIdx>>
    /\ UNCHANGED <<mode, inputVars, reported, dispatched, attackVars, engineVars>>

\* the creation prompt without the exit on 'n': either answer goes on to
\* the Manager
CreationPrompt_IgnoresDecline(a) ==
    /\ pc = "db_prompt"
    /\ cont' = a
    /\ IF a \in {"y", "n"}
       THEN InitializeAndExecute(dispatched[Len(dispatched)])
       ELSE UNCHANGED <<pc, exitStatus, error, handles, storeExists, executed, opIdx>>
    /\ UNCHANGED <<mode, inputVars, reported, dispatched, attackVars, engineVars>>

\* one answer to "Database not found. Continue and create it?", and the
\* rest of run_db_command when the answer ends the loop
CreationPrompt(a) ==
    /\ pc = "db_prompt"
    /\ cont' = a
    /\ IF a = "n"
       THEN ExitClean /\ UNCHANGED <<handles, storeExists, executed, opIdx>>
       ELSE IF a = "y"
       THEN InitializeAndExecute(dispatched[Len(dispatched)])
       ELSE UNCHANGED <<pc, exitStatus, error, handles, storeExists, executed, opIdx>>
    /\ UNCHANGED <<mode, inputVars, reported, dispatched, attackVars, engineVars>>

\* cli mode "manage-db": run_db_command(parser)
CliDbCommand ==
    /\ pc = "start" /\ mode = "db"
    /\ run_db_command(argv)
    /\ UNCHANGED <<mode, inputVars, reported, attackVars, engineVars>>

(***************************************************************************)
(* The management loop of yaml mode (bfg.py 253-277).                      *)
(***************************************************************************)
\* the loop taken over reversed(db_args.items())
ManageOp_Reversed ==
    /\ pc = "manage" /\ opIdx <= Len(DbArgs(doc))
    /\ LET cmd == DbArgs(doc)[Len(DbArgs(doc)) + 1 - opIdx][1]
           argset == DbArgs(doc)[Len(DbArgs(doc)) + 1 - opIdx][2]
       IN IF argset.t /= "map"
          THEN Raise("ValueError:argset") /\ UNCHANGED mgmtVars
          ELSE run_db_command(MgmtArgs(cmd, DbArg(doc), argset))
    /\ UNCHANGED <<mode, inputVars, reported, attackVars, engineVars>>

\* one iteration of the loop over db_args.items()
ManageOp ==
    /\ pc = "manage" /\ opIdx <= Len(DbArgs(doc))
    /\ LET cmd == DbArgs(doc)[opIdx][1]
           argset == DbArgs(doc)[opIdx][2]
       IN IF argset.t /= "map"
          THEN Raise("ValueError:argset") /\ UNCHANGED mgmtVars
          ELSE run_db_command(MgmtArgs(cmd, DbArg(doc), argset))
    /\ UNCHANGED <<mode, inputVars, reported, attackVars, engineVars>>

(***************************************************************************)
(* The attack translation of yaml mode (bfg.py 283-336).                   *)
(***************************************************************************)
\* the position of the module entry in bf_args
ModuleIndex(bf) == CHOOSE i \in 1..Len(bf) : bf[i][1] = s_module

\* the end of the management loop, then the attack section
TranslateAttack ==
    /\ pc = "manage" /\ opIdx > Len(DbArgs(doc))
    /\ LET bf_args == BfArgs(doc)
       IN IF bf_args = <<>>
          THEN ExitClean /\ UNCHANGED <<mode, attackVars>>
          ELSE IF AttackError(bf_args) = "ValueError:module"
          THEN Raise(AttackError(bf_args)) /\ UNCHANGED <<mode, attackVars>>
          ELSE IF AttackError(bf_args) /= ""
          THEN /\ Raise(AttackError(bf_args))
               /\ brute_cli_args' = brute_cli_args \o
                      AttackTokens(SubSeq(bf_args, 1, ModuleIndex(bf_args) - 1))
               /\ UNCHANGED <<mode, parsed, hasModule>>
          ELSE /\ brute_cli_args' = brute_cli_args \o AttackTokens(bf_args)
               /\ parsed' = TRUE
               /\ \E accepted \in BOOLEAN :
                     IF accepted
                     THEN /\ mode' = "brute" /\ hasModule' = TRUE
                          /\ pc' = "assemble"
                          /\ UNCHANGED <<exitStatus, error>>
                     ELSE /\ pc' = "exited" /\ exitStatus' = 2
                          /\ error' = "argparse:SystemExit"
                          /\ UNCHANGED <<mode, hasModule>>
    /\ UNCHANGED <<inputVars, reported, mgmtVars, engineVars>>

(***************************************************************************)
(* Attack Configuration Assembler (bfg.py 346-390).                        *)
(***************************************************************************)
\* Assemble without the fatal validation: a failed config.validate() is
\* ignored and the launch goes ahead
Assemble_IgnoresValidation ==
    /\ mode = "brute" /\ pc \in {"start", "assemble"}
    /\ IF ~hasModule
       THEN Raise("Exception:module") /\ UNCHANGED validation
       ELSE \E valid \in BOOLEAN :
              /\ validation' = IF valid THEN "ok" ELSE "failed"
              /\ pc' = "launch"
              /\ UNCHANGED <<exitStatus, error>>
    /\ UNCHANGED <<mode, inputVars, reported, mgmtVars, attackVars,
                   engine, shutdownRequests, uinput, resume, interrupts>>

\* the module check, the Config and config.validate()
Assemble ==
    /\ mode = "brute" /\ pc \in {"start", "assemble"}
    /\ IF ~hasModule
       THEN Raise("Exception:module") /\ UNCHANGED validation
       ELSE \E valid \in BOOLEAN :
              IF valid
              THEN /\ validation' = "ok" /\ pc' = "launch"
                   /\ UNCHANGED <<exitStatus, error>>
              ELSE validation' = "failed" /\ Raise("validate:Exception")
    /\ UNCHANGED <<mode, inputVars, reported, mgmtVars, attackVars,
                   engine, shutdownRequests, uinput, resume, interrupts>>

(***************************************************************************)
(* Campaign Orchestrator (bfg.py 395-412).                                 *)
(***************************************************************************)
\* the except block: the message and the call trace are printed, and the
\* script ends after its last print
ReportFailure == reported' = reported \cup {"message", "trace"} /\ ExitClean

\* bf = BruteForcer(config); bf.launch() up to the running campaign
Launch ==
    /\ pc = "launch"
    /\ \E ok \in BOOLEAN :
         IF ok
         THEN /\ engine' = "running" /\ pc' = "running"
              /\ UNCHANGED <<exitStatus, error, reported>>
         ELSE engine' = "failed" /\ ReportFailure
    /\ UNCHANGED <<mode, inputVars, mgmtVars, attackVars,
                   validation, shutdownRequests, uinput, resume, interrupts>>

\* bf.launch() returns: 'Attack complete', end of the script
Complete ==
    /\ pc = "running"
    /\ engine' = "stopped"
    /\ ExitClean
    /\ UNCHANGED <<mode, inputVars, reported, mgmtVars, attackVars,
                   validation, shutdownRequests, uinput, resume, interrupts>>

\* bf.launch() raises an Exception
LaunchFailure ==
    /\ pc = "running"
    /\ engine' = "failed"
    /\ ReportFailure
    /\ UNCHANGED <<mode, inputVars, mgmtVars, attackVars,
                   validation, shutdownRequests, uinput, resume, interrupts>>

(***************************************************************************)
(* The interrupt policy (bfg.py 82-97, 168-181, 387).                      *)
(***************************************************************************)
\* get_user_input without its loop: the first answer is returned
get_user_input_AnyAnswer(a) == TRUE

\* get_user_input leaves its loop with this answer
get_user_input(a) == ~(a /= "y" /\ a /= "n")

\* an interrupt during the campaign: the engine calls the handler
Interrupt ==
    /\ pc = "running" /\ interrupts < MaxInterrupts
    /\ interrupts' = interrupts + 1
    /\ resume' = Append(resume, pc)
    /\ pc' = "kill_prompt"
    /\ uinput' = ""
    /\ UNCHANGED <<mode, inputVars, exitStatus, error, reported, mgmtVars,
                   attackVars, validation, engine, shutdownRequests>>

\* the handler without its call of bf.shutdown(): 'y' goes straight to
\* the exit
handle_keyboard_interrupt_NoShutdown(a) ==
    /\ pc = "kill_prompt"
    /\ uinput' = a
    /\ IF ~get_user_input(a)
       THEN UNCHANGED <<pc, engine, shutdownRequests, resume>>
       ELSE IF a = "y"
       THEN /\ pc' = "draining"
            /\ UNCHANGED <<engine, shutdownRequests, resume>>
       ELSE /\ pc' = resume[Len(resume)]
            /\ resume' = SubSeq(resume, 1, Len(resume) - 1)
            /\ UNCHANGED <<engine, shutdownRequests>>
    /\ UNCHANGED <<mode, inputVars, exitStatus, error, reported, mgmtVars,
                   attackVars, validation, interrupts>>

\* one answer to 'Kill brute force?(y/n): ', and the rest of the handler
\* up to bf.shutdown() when the answer ends the loop
handle_keyboard_interrupt(a) ==
    /\ pc = "kill_prompt"
    /\ uinput' = a
    /\ IF ~get_user_input(a)
       THEN UNCHANGED <<pc, engine, shutdownRequests, resume>>
       ELSE IF a = "y"
       THEN /\ shutdownRequests' = shutdownRequests + 1
            /\ engine' = "draining"
            /\ pc' = "draining"
            /\ UNCHANGED resume
       ELSE /\ pc' = resume[Len(resume)]
            /\ resume' = SubSeq(resume, 1, Len(resume) - 1)
            /\ UNCHANGED <<engine, shutdownRequests>>
    /\ UNCHANGED <<mode, inputVars, exitStatus, error, reported, mgmtVars,
                   attackVars, validation, interrupts>>

\* bf.shutdown() returns: 'Exiting', exit()
ShutdownReturns ==
    /\ pc = "draining"
    /\ engine' = "stopped"
    /\ ExitClean
    /\ UNCHANGED <<mode, inputVars, reported, mgmtVars, attackVars,
                   validation, shutdownRequests, uinput, resume, interrupts>>

\* an interrupt while bf.shutdown() waits for the workers: the engine
\* either calls the handler again or lets KeyboardInterrupt end the process
InterruptWhileDraining ==
    /\ pc = "draining" /\ interrupts < MaxInterrupts
    /\ interrupts' = interrupts + 1
    /\ \E handled \in BOOLEAN :
         IF handled
         THEN /\ resume' = Append(resume, pc)
              /\ pc' = "kill_prompt"
              /\ uinput' = ""
              /\ UNCHANGED <<exitStatus, error>>
         ELSE /\ Raise("KeyboardInterrupt")
              /\ UNCHANGED <<resume, uinput>>
    /\ UNCHANGED <<mode, inputVars, reported, mgmtVars, attackVars,
                   validation, engine, shutdownRequests>>

(***************************************************************************)
(* The specification.                                                      *)
(***************************************************************************)
Next ==
    \/ LoadDocument
    \/ ManageOp
    \/ CliDbCommand
    \/ \E a \in Answers : CreationPrompt(a)
    \/ TranslateAttack
    \/ Assemble
    \/ Launch
    \/ Complete
    \/ LaunchFailure
    \/ Interrupt
    \/ \E a \in Answers : handle_keyboard_interrupt(a)
    \/ ShutdownReturns
    \/ InterruptWhileDraining

Spec == Init /\ [][Next]_vars

\* The operator at a prompt: both input loops block on input() with no
\* timeout, so a prompt is left only if the operator eventually types 'y' or
\* 'n'. FairSpec is Spec with an operator who does.
FairSpec ==
    /\ Spec
    /\ WF_vars(\E a \in {"y", "n"} : CreationPrompt(a))
    /\ WF_vars(\E a \in {"y", "n"} : handle_keyboard_interrupt(a))

TypeOK ==
    /\ mode \in {"yaml", "db", "brute"}
    /\ pc \in {"start", "manage", "db_prompt", "assemble", "launch",
                "running", "kill_prompt", "draining", "exited"}
    /\ exitStatus \in {-1, 0, 1, 2}
    /\ (pc = "exited") = (exitStatus /= -1)
    /\ engine \in {"none", "running", "draining", "stopped", "failed"}
    /\ validation \in {"pending", "ok", "failed"}
    /\ shutdownRequests \in 0..MaxInterrupts
    /\ handles \in 0..MaxOps

(***************************************************************************)
(* Vocabulary of the properties.                                           *)
(***************************************************************************)
\* p is a prefix of s
IsPrefix(p, s) == Len(p) <= Len(s) /\ SubSeq(s, 1, Len(p)) = p

\* the value a token carries: what follows the first "=" of a --flag=value
\* token, the token itself otherwise
ValueOf(tok) ==
    IF IsPrefix(<<"-", "-">>, tok) /\ \E i \in 1..Len(tok) : tok[i] = "="
    THEN SubSeq(tok, (CHOOSE i \in 1..Len(tok) :
                        tok[i] = "=" /\ \A j \in 1..(i - 1) : tok[j] /= "=") + 1,
                Len(tok))
    ELSE tok

\* every token list this run has handed to a grammar
EmittedLists ==
    { dispatched[i] : i \in 1..Len(dispatched) }
        \cup (IF parsed THEN {brute_cli_args} ELSE {})

\* the structural errors of a document: a management operation whose value
\* is not a mapping, a non-empty attack section without module, a module
\* without name or args
StructurallyInvalid(d) ==
    \/ \E i \in 1..Len(DbArgs(d)) : DbArgs(d)[i][2].t /= "map"
    \/ BfArgs(d) /= <<>> /\ AttackError(BfArgs(d)) /= ""

(***************************************************************************)
(* C1: whenever the engine's instantiation or launch raises an unhandled   *)
(* exception, the failure message and the call trace are reported and the  *)
(* process ends with a non-zero exit status, never with success.           *)
(***************************************************************************)
C1_LaunchFailureExitsNonZero ==
    engine = "failed" =>
        /\ {"message", "trace"} \subseteq reported
        /\ pc = "exited" => exitStatus /= 0

(***************************************************************************)
(* C2: in yaml mode, a document with a structural error anywhere makes the *)
(* run fail with no management operation dispatched, no store handle       *)
(* opened and no campaign launched.                                        *)
(***************************************************************************)
C2_NoPartialExecutionOnInvalid ==
    (mode = "yaml" /\ StructurallyInvalid(doc)) =>
        /\ dispatched = <<>>
        /\ handles = 0
        /\ engine = "none"
        /\ pc \notin {"assemble", "launch", "running"}

(***************************************************************************)
(* C3: the engine is instantiated and launched only after config.validate  *)
(* has returned; when validation fails the process exits non-zero and the  *)
(* engine is never instantiated.                                           *)
(***************************************************************************)
C3_LaunchOnlyAfterValidation ==
    /\ (engine /= "none" \/ pc \in {"launch", "running", "kill_prompt", "draining"})
          => validation = "ok"
    /\ validation = "failed"
          => (pc = "exited" /\ exitStatus /= 0 /\ engine = "none")

\* a campaign that runs after its configuration was validated
C3_Witness == engine = "running" /\ pc = "running" /\ validation = "ok"

(***************************************************************************)
(* C4: the interrupt handler blocks on the prompt; on 'y' it issues        *)
(* exactly one shutdown request to the running engine and the process      *)
(* then exits, never resuming the campaign; on 'n' it issues none and      *)
(* control returns to the interrupted campaign, which is unaffected.       *)
(***************************************************************************)
C4_InterruptHandler ==
    /\ [](pc = "kill_prompt" => (resume /= <<>> /\ resume[1] = "running"))
    /\ [][ /\ (pc = "kill_prompt" /\ uinput' = "y")
               => (shutdownRequests' = shutdownRequests + 1 /\ pc' = "draining")
           /\ (pc = "kill_prompt" /\ uinput' = "n")
               => /\ shutdownRequests' = shutdownRequests
                  /\ pc' = resume[Len(resume)]
                  /\ engine' = engine
                  /\ exitStatus' = -1
           /\ (pc = "kill_prompt" /\ uinput' \notin {"y", "n"})
               => (shutdownRequests' = shutdownRequests /\ pc' = "kill_prompt")
           /\ pc = "draining" => pc' \in {"draining", "kill_prompt", "exited"}
           /\ shutdownRequests' /= shutdownRequests
               => (pc = "kill_prompt" /\ uinput' = "y")
         ]_vars

\* both answers were given in one run: a declined interrupt, then a
\* confirmed one, and the process has exited after its one request
C4_Witness ==
    /\ pc = "exited" /\ exitStatus = 0 /\ engine = "stopped"
    /\ interrupts = 2 /\ shutdownRequests = 1 /\ uinput = "y"

C6_DeclinedCreation ==
    /\ [](cont = "n" =>
            /\ pc = "exited" /\ exitStatus = 0
            /\ ~storeExists
            /\ handles = 0
            /\ executed = <<>>)
    /\ [][ handles' /= handles =>
             /\ handles' = handles + 1
             /\ storeExists \/ cont' = "y"
             /\ cont' = "y" => (pc = "db_prompt" /\ ~storeExists)
         ]_vars

\* the operator has declined the creation of the store of a dispatched
\* operation
C6_Witness ==
    /\ cont = "n" /\ pc = "exited" /\ exitStatus = 0
    /\ Len(dispatched) = 1 /\ executed = <<>> /\ ~storeExists

(***************************************************************************)
(* C7: in yaml mode the management operations are dispatched in document   *)
(* order, one run_db_command call per operation, the next one only after   *)
(* the previous one has finished, and each call constructs its own store   *)
(* handle.                                                                 *)
(***************************************************************************)
C7_SequentialInOrder ==
    mode /= "db" =>
        /\ Len(dispatched) <= Len(DbArgs(doc))
        /\ \A i \in 1..Len(dispatched) : dispatched[i][1] = DbArgs(doc)[i][1]
        /\ Len(executed) <= Len(dispatched)
        /\ Len(dispatched) <= Len(executed) + 1
        /\ Len(dispatched) = Len(executed) + 1 => pc \in {"db_prompt", "exited"}
        /\ \A i \in 1..Len(executed) : executed[i].args = dispatched[i]
        /\ \A i, j \in 1..Len(executed) :
              i /= j => executed[i].manager /= executed[j].manager
        /\ handles = Len(executed)
        /\ pc \in {"assemble", "launch", "running"} =>
              Len(executed) = Len(DbArgs(doc))

\* two operations of a document were dispatched and executed
C7_Witness ==
    /\ mode = "yaml" /\ Len(executed) = 2 /\ Len(DbArgs(doc)) = 2
    /\ executed[1].manager /= executed[2].manager

(***************************************************************************)
(* C8: in the tokens handed to the attack grammar the module name token    *)
(* precedes the module's own flag tokens, and every top-level attack flag  *)
(* token precedes the module name token, wherever module is declared; for  *)
(* module (ssh, port 22) declared before process_count: 4 the tokens       *)
(* --process-count=4, ssh, --port=22 appear in that order.                 *)
(***************************************************************************)
C8_TopLevelFlagsPrecedeModule ==
    parsed =>
        LET bf == BfArgs(doc)
            module == Get(bf, s_module).m
            ni == CHOOSE i \in 1..Len(brute_cli_args) :
                      brute_cli_args[i] = Get(module, s_name).s
        IN /\ \A j \in 1..Len(brute_cli_args) :
                /\ (\E e \in 1..Len(bf) :
                       /\ bf[e][1] /= s_module
                       /\ IsPrefix(FT(ReplaceUnderscore(bf[e][1]), <<>>),
                                   brute_cli_args[j]))
                     => j < ni
                /\ (\E e \in 1..Len(Get(module, s_args).m) :
                       IsPrefix(FT(ReplaceUnderscore(Get(module, s_args).m[e][1]), <<>>),
                                brute_cli_args[j]))
                     => j > ni
           /\ bf = << <<s_module, SshModule>>, <<s_process_count, IntV(4)>> >>
                => \E i \in 1..(Len(brute_cli_args) - 2) :
                      SubSeq(brute_cli_args, i, i + 2) =
                          <<t_process_count_4, s_ssh, t_port_22>>

(***************************************************************************)
(* C9: every boolean value of a management section or of an attack         *)
(* section, top-level parameters and module arguments alike, is emitted    *)
(* as "true" or "false", never as "True" or "False".                       *)
(***************************************************************************)
C9_BooleansLowercase ==
    \A toks \in EmittedLists :
        \A i \in 1..Len(toks) : ValueOf(toks[i]) \notin {s_True, s_False}

\* the value tokens of toks that stringify an element of the sequence l
ElementTokens(toks, l) ==
    { j \in 1..Len(toks) : \E i \in 1..Len(l) : ValueOf(toks[j]) = Str(l[i]) }

(***************************************************************************)
(* C10: every sequence value, in a management section and in an attack     *)
(* section alike, expands to one token per element: a sequence of n        *)
(* elements contributes exactly n value tokens.                            *)
(***************************************************************************)
C10_SequencesExpand ==
    /\ \A k \in 1..Len(dispatched) :
          mode = "yaml" =>
            \A e \in 1..Len(DbArgs(doc)[k][2].m) :
              LET v == DbArgs(doc)[k][2].m[e][2]
              IN v.t = "list" =>
                   Cardinality(ElementTokens(dispatched[k], v.l)) = Len(v.l)
    /\ parsed =>
          \A e \in 1..Len(BfArgs(doc)) :
            LET v == BfArgs(doc)[e][2]
            IN v.t = "list" =>
                 Cardinality(ElementTokens(brute_cli_args, v.l)) = Len(v.l)

\* the flag name of a --flag or --flag=value token: what lies between the
\* two hyphens and the first "=", if any
FlagNameOf(tok) ==
    IF \E i \in 1..Len(tok) : tok[i] = "="
    THEN SubSeq(tok, 3, (CHOOSE i \in 1..Len(tok) :
                           tok[i] = "=" /\ \A j \in 1..(i - 1) : tok[j] /= "=") - 1)
    ELSE SubSeq(tok, 3, Len(tok))

(***************************************************************************)
(* C11: every flag token the Normalizer emits, for management operations   *)
(* and for the attack alike, has the underscores of the document key       *)
(* replaced by hyphens: no emitted flag name contains an underscore.       *)
(***************************************************************************)
C11_NoUnderscoreInFlags ==
    \A toks \in EmittedLists :
        \A i \in 1..Len(toks) :
            IsPrefix(<<"-", "-">>, toks[i]) =>
                \A c \in 1..Len(FlagNameOf(toks[i])) : FlagNameOf(toks[i])[c] /= "_"

\* the positions in toks of the flag tokens of document key k
FlagPositions(toks, k) ==
    { j \in 1..Len(toks) :
        /\ IsPrefix(<<"-", "-">>, toks[j])
        /\ ReplaceUnderscore(FlagNameOf(toks[j])) = ReplaceUnderscore(k) }

\* the positions in toks of the tokens of one entry of an attack section:
\* its flag token, or the module name and the module's flag tokens
EntryPositions(toks, entry) ==
    IF entry[1] /= s_module
    THEN FlagPositions(toks, entry[1])
    ELSE { j \in 1..Len(toks) : toks[j] = Get(entry[2].m, s_name).s }
         \cup UNION { FlagPositions(toks, Get(entry[2].m, s_args).m[e][1]) :
                        e \in 1..Len(Get(entry[2].m, s_args).m) }

(***************************************************************************)
(* C12: the emitted token order equals the declaration order of the        *)
(* document's keys: every key has its tokens, and the tokens of an earlier *)
(* key all precede the tokens of a later key, in the attack section and in *)
(* every management operation.                                             *)
(***************************************************************************)
C12_TokenOrderIsDeclarationOrder ==
    /\ parsed =>
         LET bf == BfArgs(doc)
         IN /\ \A i \in 1..Len(bf) : EntryPositions(brute_cli_args, bf[i]) /= {}
            /\ \A i, j \in 1..Len(bf) :
                 i < j => \A a \in EntryPositions(brute_cli_args, bf[i]) :
                            \A b \in EntryPositions(brute_cli_args, bf[j]) : a < b
    /\ mode /= "db" =>
         \A k \in 1..Len(dispatched) :
            LET m == DbArgs(doc)[k][2].m
            IN /\ \A i \in 1..Len(m) : Cardinality(FlagPositions(dispatched[k], m[i][1])) = 1
               /\ \A i, j \in 1..Len(m) :
                    i < j => \A a \in FlagPositions(dispatched[k], m[i][1]) :
                               \A b \in FlagPositions(dispatched[k], m[j][1]) : a < b

\* a run that has emitted a management operation with two flags and an
\* attack section with two keys
C12_Witness ==
    /\ parsed /\ Len(BfArgs(doc)) = 2
    /\ \E k \in 1..Len(dispatched) : Len(DbArgs(doc)[k][2].m) = 2

\* the value tokens the claims give a flag: one per element of a sequence,
\* the lowercase word for a boolean, the string of any other scalar
ExpectedValues(v) ==
    CASE v.t = "list" -> [i \in 1..Len(v.l) |-> Str(v.l[i])]
      [] v.t = "bool" -> <<IF v.b THEN s_true ELSE s_false>>
      [] OTHER -> <<Str(v)>>

RECURSIVE ExpectedFlags(_)
\* for each flag of a mapping, in mapping order: "--flag", its value tokens
ExpectedFlags(m) ==
    IF m = <<>> THEN <<>>
    ELSE << <<"-", "-">> \o m[1][1] >> \o ExpectedValues(m[1][2]) \o ExpectedFlags(Tail(m))

\* a token list with the underscores of its flag tokens read as hyphens, so
\* that the shape of the list is compared apart from the spelling of its flags
FlagsHyphenated(toks) ==
    [i \in 1..Len(toks) |->
        IF IsPrefix(<<"-", "-">>, toks[i]) THEN ReplaceUnderscore(toks[i]) ELSE toks[i]]

(***************************************************************************)
(* C13: for every management operation op with an argument mapping, in a   *)
(* document whose store path is p, run_db_command is called once with the  *)
(* tokens op, --database=p, then for each flag in mapping order --flag and *)
(* its value tokens; {database: a.db, manage-db: {add-creds: {file:        *)
(* c.txt}}} gives one call with add-creds, --database=a.db, --file, c.txt. *)
(***************************************************************************)
C13_ManagementInvocation ==
    mode /= "db" =>
        LET ops == DbArgs(doc)
        IN /\ Len(dispatched) <= Len(ops)
           /\ \A i \in 1..Len(dispatched) :
                FlagsHyphenated(dispatched[i]) =
                    FlagsHyphenated(<<ops[i][1], <<"-","-">> \o s_database \o <<"=">>
                                                   \o Get(doc, s_database).s>>
                                    \o ExpectedFlags(ops[i][2].m))
           /\ opIdx > Len(ops) => Len(dispatched) = Len(ops)
           /\ (ops = << <<s_add_creds, MapV(<< <<s_file, StrV(s_c_txt)>> >>)>> >>
                 /\ dispatched /= <<>>)
                => dispatched = << <<s_add_creds, t_database_a_db, t_file, s_c_txt>> >>

\* the scenario of the spec: the one operation was dispatched and executed
C13_Witness ==
    /\ mode = "yaml"
    /\ DbArgs(doc) = << <<s_add_creds, MapV(<< <<s_file, StrV(s_c_txt)>> >>)>> >>
    /\ Len(dispatched) = 1 /\ Len(executed) = 1 /\ opIdx = 2

(***************************************************************************)
(* C14: for every brute-force section that lacks a module key, a section   *)
(* with no keys at all included, the translation fails with the module     *)
(* ValueError, no attack tokens are produced and no campaign is assembled  *)
(* or launched. Stated of the runs that load the document and complete     *)
(* its management operations.                                              *)
(***************************************************************************)
C14_MissingModuleIsInvalid ==
    ( /\ mode = "yaml"
      /\ fileStatus = "file" /\ HasKey(doc, s_database)
      /\ HasKey(doc, s_brute_force)
      /\ ~HasKey(BfArgs(doc), s_module)
      /\ pc = "exited"
      /\ opIdx > Len(DbArgs(doc)) )
    => /\ error = "ValueError:module"
       /\ exitStatus /= 0
       /\ ~parsed
       /\ validation = "pending"
       /\ engine = "none"

(***************************************************************************)
(* C15: findFile raises FileNotFoundError whenever the path does not       *)
(* resolve to an existing regular file, that is when it does not exist or  *)
(* exists but is not a file; it returns a path only for an existing file.  *)
(***************************************************************************)
C15_FindFileNotFound ==
    pc /= "start" =>
        /\ fileStatus /= "file" => error = "findFile:FileNotFoundError"
        /\ fileStatus = "file" => error /= "findFile:FileNotFoundError"

(***************************************************************************)
(* C16: when the parsed document has no top-level database key, the Loader *)
(* fails with the ValueError of parseYml before any management operation   *)
(* is dispatched, before any store check or store handle, and before any   *)
(* attack translation.                                                     *)
(***************************************************************************)
C16_MissingDatabaseKey ==
    (mode = "yaml" /\ fileStatus = "file" /\ ~HasKey(doc, s_database) /\ pc /= "start")
    => /\ pc = "exited" /\ exitStatus = 1
       /\ error = "ValueError:database"
       /\ dispatched = <<>> /\ executed = <<>> /\ handles = 0 /\ cont = ""
       /\ brute_cli_args = <<>> /\ ~parsed
       /\ validation = "pending" /\ engine = "none"

\* a document with management operations and an attack section, but no
\* database key, was rejected
C16_Witness ==
    /\ error = "ValueError:database"
    /\ ~HasKey(doc, s_database)
    /\ DbArgs(doc) /= <<>> /\ BfArgs(doc) /= <<>>
    /\ pc = "exited"

(***************************************************************************)
(* C17: in yaml mode, when the operator declines the creation of the store *)
(* during a management operation, the whole process terminates there: no   *)
(* later management operation is dispatched and no attack is translated,   *)
(* validated or launched, even with a non-empty brute-force section.       *)
(***************************************************************************)
C17_DeclineEndsTheRun ==
    /\ [](cont = "n" =>
            /\ pc = "exited"
            /\ Len(dispatched) = Len(executed) + 1
            /\ Len(brute_cli_args) <= 1
            /\ ~parsed
            /\ validation = "pending"
            /\ engine = "none")
    /\ [][ cont = "n" =>
             UNCHANGED <<pc, dispatched, executed, opIdx, brute_cli_args,
                         parsed, validation, engine>>
         ]_vars

\* the creation was declined at the first of two operations of a document
\* that also has an attack section with a module
C17_Witness ==
    /\ mode = "yaml" /\ cont = "n"
    /\ Len(DbArgs(doc)) = 2 /\ Len(dispatched) = 1
    /\ BfArgs(doc) /= <<>> /\ AttackError(BfArgs(doc)) = ""

(***************************************************************************)
(* C18: both confirmation prompts ask again on every answer other than 'y' *)
(* or 'n' and are left only with one of these two answers: on any other    *)
(* input the store is not created and no shutdown is issued; and with an   *)
(* operator who eventually answers 'y' or 'n', every prompt terminates.    *)
(***************************************************************************)
C18_PromptsLoopUntilYesOrNo ==
    /\ [][ /\ (pc = "db_prompt" /\ cont' \notin {"y", "n"})
               => (pc' = "db_prompt" /\ UNCHANGED <<handles, storeExists, executed>>)
           /\ (pc = "db_prompt" /\ pc' /= "db_prompt") => cont' \in {"y", "n"}
           /\ (pc = "kill_prompt" /\ uinput' \notin {"y", "n"})
               => (pc' = "kill_prompt" /\ UNCHANGED <<shutdownRequests, engine>>)
           /\ (pc = "kill_prompt" /\ pc' /= "kill_prompt") => uinput' \in {"y", "n"}
         ]_vars
    /\ (pc = "db_prompt") ~> (pc /= "db_prompt")
    /\ (pc = "kill_prompt") ~> (pc /= "kill_prompt")

\* another answer was typed at the kill prompt, which is asking again
C18_Witness ==
    /\ pc = "kill_prompt" /\ uinput = "x"
    /\ shutdownRequests = 0 /\ engine = "running"

====
